---- MODULE Spec2Model ----
(***************************************************************************)
(* A model of src/kandinsky_image_generator.js: the KandinskyAPI client.   *)
(*                                                                         *)
(* JavaScript runs each stretch of code between two awaits to completion,  *)
(* so every action below is one such stretch: from the call (or from the   *)
(* settling of the awaited promise) up to the next await, return or throw. *)
(* The remote service and the caller are the environment: the value an     *)
(* awaited promise settles with, and the arguments of a call, are chosen   *)
(* with \E from small sets.                                                *)
(*                                                                         *)
(* Strings are TLA+ strings and template literals are \o concatenations.   *)
(* An optional JavaScript value (a property that may be undefined) is a    *)
(* sequence of length 0 (undefined) or 1 (the value).                      *)
(***************************************************************************)
EXTENDS Integers, Sequences, FiniteSets, TLC

\* ------------------------------------------------------------------ bounds
\* The longest list of images a caller passes to saveImages.
MaxImages == 3
\* The largest attempt budget a caller passes to checkGeneration.
MaxAttempts == 3
\* The longest pipeline list the service answers getPipeline with.
MaxPipelines == 3

\* The concurrent checkGeneration calls on the one client instance.
Polls == {"a", "b"}

Undefined == <<>>
Some(v) == <<v>>

\* ------------------------------------------------------------ the client
VARIABLES
    URL,            \* this.URL
    AUTH_HEADERS,   \* this.AUTH_HEADERS
    pc,             \* per poll: where the call is suspended
    opts,           \* per poll: requestId and the destructured options
    attemptsLeft,   \* the remaining-attempt counters, one cell per call
    pending,        \* per poll: the status requests issued and not yet settled
    body,           \* per poll: the response whose json() is being awaited
    log,            \* per poll: what the call has done so far, in order
    obs,            \* per poll: the fetch results the call has been given
    outcome,        \* per poll: how the call ended
    overlap,        \* a call was made while another call was under way
    gpc,            \* getPipeline: where the call is suspended
    gpending,       \* getPipeline: the requests issued and not yet settled
    gsent,          \* getPipeline: every request the call has issued
    gbody,          \* getPipeline: the response whose json() is being awaited
    gobs,           \* getPipeline: the fetch results the call has been given
    goutcome,       \* getPipeline: how the call ended
    genpc,          \* generate: where the call is suspended
    genargs,        \* generate: the prompt, the pipeline id and the options of the call
    genpending,     \* generate: the requests issued and not yet settled
    gensent,        \* generate: every request the call has issued
    genbody,        \* generate: the response whose json() is being awaited
    genobs,         \* generate: the fetch results the call has been given
    genoutcome,     \* generate: how the call ended
    spc,            \* saveImages: whether the call has been made
    sargs,          \* saveImages: the images and the options of the call
    downloads,      \* saveImages: the links clicked, in order (href, download)
    soutcome        \* saveImages: what the call returned

clientVars == <<URL, AUTH_HEADERS>>
pollVars == <<pc, opts, attemptsLeft, pending, body, log, obs, outcome, overlap>>
pipeVars == <<gpc, gpending, gsent, gbody, gobs, goutcome>>
genVars == <<genpc, genargs, genpending, gensent, genbody, genobs, genoutcome>>
saveVars == <<spc, sargs, downloads, soutcome>>
vars == <<URL, AUTH_HEADERS, pc, opts, attemptsLeft, pending, body, log, obs,
          outcome, overlap, gpc, gpending, gsent, gbody, gobs, goutcome,
          genpc, genargs, genpending, gensent, genbody, genobs, genoutcome,
          spc, sargs, downloads, soutcome>>

\* No method assigns this.URL or this.AUTH_HEADERS: they are only read, to
\* build the requests.
UrlExtendedInPlace == URL' = URL \o "key/api/v1/" /\ UNCHANGED AUTH_HEADERS
CredentialsUntouched == UNCHANGED clientVars

\* constructor(apiKey, secretKey, url = 'https://api-key.fusionbrain.ai/')
DefaultURL == "https://api-key.fusionbrain.ai/"
Constructor(apiKey, secretKey, url) ==
    /\ URL = (IF url = Undefined THEN DefaultURL ELSE url[1])
    /\ AUTH_HEADERS = [XKey |-> "Key " \o apiKey, XSecret |-> "Secret " \o secretKey]

\* ------------------------------------------------- how a call can end
NoOutcome == [kind |-> "none", value |-> Undefined, message |-> ""]
Returned(v) == [kind |-> "returned", value |-> v, message |-> ""]
Threw(m) == [kind |-> "threw", value |-> Undefined, message |-> m]

\* ------------------------------------------- what the service can answer
\* `${response.status}` for the status codes of the model.
StatusString(n) ==
    CASE n = 200 -> "200" [] n = 404 -> "404" [] n = 500 -> "500" [] n = 503 -> "503"

\* fetch() rejects (no response at all), e.g. the network is down.
FetchRejected == [settled |-> "rejected", ok |-> FALSE, status |-> 0, statusText |-> "",
                  reason |-> "Failed to fetch", json |-> Undefined]
\* fetch() resolves with a response; json is the parsed body, Undefined when
\* response.json() rejects (the body is no JSON).
Response(ok, status, statusText, json) ==
    [settled |-> "resolved", ok |-> ok, status |-> status, statusText |-> statusText,
     reason |-> "", json |-> json]
\* The message of the SyntaxError response.json() rejects with.
JsonSyntaxError == "Unexpected token < in JSON at position 0"

\* A status document: {status, result: {files}?, errorDescription?}.
StatusDoc(status, result, errorDescription) ==
    [status |-> status, result |-> result, errorDescription |-> errorDescription]

NonTerminalStatuses == {"PROCESSING", "SOMETHING_NEW"}
FileLists == {<<"imgA">>, <<"imgB", "imgC">>}
ErrorDescriptions == {Undefined, Some(""), Some("censored")}

StatusDocs ==
    {StatusDoc(s, Undefined, Undefined) : s \in NonTerminalStatuses}
    \cup {StatusDoc("DONE", Some([files |-> f]), Undefined) : f \in FileLists}
    \cup {StatusDoc("DONE", Undefined, Undefined)}
    \cup {StatusDoc("FAIL", Undefined, d) : d \in ErrorDescriptions}

StatusFetchResults ==
    {FetchRejected}
    \cup {Response(FALSE, 500, "Internal Server Error", Undefined),
          Response(FALSE, 404, "Not Found", Undefined)}
    \cup {Response(TRUE, 200, "OK", Undefined)}
    \cup {Response(TRUE, 200, "OK", Some(d)) : d \in StatusDocs}

\* ------------------------------------------------------ checkGeneration
\* One entry of a call's log. attemptsLeft is the counter's value when the entry
\* is written; for a "callback" entry the three fields are the argument
\* {status, attemptsLeft, totalAttempts} the callback is given.
EventTotalFromCounter(ev, status, left, total) ==
    [ev |-> ev, status |-> status, attemptsLeft |-> left, totalAttempts |-> left]
Event(ev, status, left, total) ==
    [ev |-> ev, status |-> status, attemptsLeft |-> left, totalAttempts |-> total]

\* `let attemptsLeft` is a local of the call: each call has a cell of its own.
CellOnTheClient(p) == "a"
Cell(p) == p

\* fetch(`${this.URL}key/api/v1/pipeline/status/${requestId}`, {method: 'GET', headers})
StatusRequest(requestId) ==
    [method |-> "GET", url |-> URL \o "key/api/v1/pipeline/status/" \o requestId,
     headers |-> AUTH_HEADERS]

\* while (attemptsLeft > 0)
LoopStopsOneEarly(left) == left > 1
LoopRunsAtZero(left) == left >= 0
LoopContinues(left) == left > 0

\* attemptsLeft--
DecrementForgotten(left) == left
Decrement(left) == left - 1

\* if (!response.ok)
OkNeverChecked(response) == FALSE
NotOk(response) == ~response.ok

\* `Failed to check generation status: ${response.status} ${response.statusText}`
StatusCheckFailed(response) ==
    "Failed to check generation status: " \o StatusString(response.status)
        \o " " \o response.statusText

\* data.status === 'DONE' and data.status === 'FAIL'
DoneMisspelt(data) == data.status = "Done"
IsDone(data) == data.status = "DONE"
FailRetried(data) == FALSE
IsFail(data) == data.status = "FAIL"

\* JavaScript truthiness of an optional string: undefined and '' are falsy.
Truthy(opt) == opt # Undefined /\ opt[1] # ""

\* const errorMsg = data.errorDescription || 'Unknown error'
ErrorMsgDropped(data) == "Unknown error"
ErrorMsg(data) ==
    IF Truthy(data.errorDescription) THEN data.errorDescription[1] ELSE "Unknown error"

\* `Generation failed: ${errorMsg}`
GenerationFailed(errorMsg) == "Generation failed: " \o errorMsg

\* catch (error) { throw new Error(`Error checking generation: ${error.message}`) }
NotWrapped(message) == message
Wrap(message) == "Error checking generation: " \o message

\* throw new Error('Generation timed out'), after the loop (outside the try)
TimedOut == "Generation timed out"

\* The TypeError of data.result.files when data.result is undefined.
NoResultTypeError == "Cannot read properties of undefined (reading 'files')"

\* return data.result.files: a TypeError, thrown inside the try, when the
\* document has no result.
DoneWithoutResultReturns(data) ==
    IF data.result = Undefined THEN Returned(Undefined)
    ELSE Returned(Some(data.result[1].files))
DoneOutcome(data) ==
    IF data.result = Undefined THEN Threw(Wrap(NoResultTypeError))
    ELSE Returned(Some(data.result[1].files))

\* What a caller's onProgress throws when it throws.
CallbackMessage == "onProgress failed"

\* The call of p ends with `out`: it returned or threw to its caller.
Finish(p, out, left, lg) ==
    /\ pc' = [pc EXCEPT ![p] = "done"]
    /\ outcome' = [outcome EXCEPT ![p] = out]
    /\ attemptsLeft' = [attemptsLeft EXCEPT ![Cell(p)] = left]
    /\ log' = [log EXCEPT ![p] = lg]

\* The head of the loop of the call with options o and the counter at `left`: the while test, then either
\* the fetch of the next status read (the call suspends on it) or the throw
\* after the loop.
LoopHead(p, o, left, lg) ==
    IF LoopContinues(left)
    THEN /\ pc' = [pc EXCEPT ![p] = "fetch"]
         /\ pending' = [pending EXCEPT ![p] = Append(@, StatusRequest(o.requestId))]
         /\ log' = [log EXCEPT ![p] = Append(lg, Event("read", "", left, o.attempts))]
         /\ attemptsLeft' = [attemptsLeft EXCEPT ![Cell(p)] = left]
         /\ UNCHANGED outcome
    ELSE /\ Finish(p, Threw(TimedOut), left, lg)
         /\ UNCHANGED pending

\* The delay without its await: the timer is started and the loop goes on.
DelayNotAwaited(p, left, lg) ==
    LoopHead(p, opts[p], left, Append(lg, Event("sleep", "", left, opts[p].attempts)))

\* await new Promise(resolve => setTimeout(resolve, delay)): the timer is
\* started and the call suspends until it fires.
AwaitDelay(p, left, lg) ==
    /\ pc' = [pc EXCEPT ![p] = "delay"]
    /\ log' = [log EXCEPT ![p] = Append(lg, Event("sleep", "", left, opts[p].attempts))]
    /\ attemptsLeft' = [attemptsLeft EXCEPT ![Cell(p)] = left]
    /\ UNCHANGED <<pending, outcome>>

\* checkGeneration(requestId, {attempts, onProgress}) is called: the options
\* are destructured, the counter is set and the loop is entered.
Call(p, requestId, attempts, onProgress) ==
    /\ pc[p] = "idle"
    /\ LET o == [requestId |-> requestId, attempts |-> attempts, onProgress |-> onProgress]
       IN  /\ opts' = [opts EXCEPT ![p] = o]
           /\ LoopHead(p, o, attempts, log[p])
    /\ overlap' = (overlap \/ \E q \in Polls \ {p} : pc[q] \notin {"idle", "done"})
    /\ UNCHANGED <<body, obs>>
    /\ CredentialsUntouched /\ UNCHANGED <<pipeVars, genVars, saveVars>>

\* The awaited fetch settles with r. A rejection or a response that is not ok
\* throws inside the try; otherwise response.json() is awaited.
FetchSettles(p, r) ==
    /\ pc[p] = "fetch"
    /\ pending[p] # <<>>
    /\ obs' = [obs EXCEPT ![p] = Append(@, r)]
    /\ LET left == attemptsLeft[Cell(p)]
           lg == log[p]
       IN  IF r.settled = "rejected"
           THEN /\ Finish(p, Threw(Wrap(r.reason)), left, lg)
                /\ UNCHANGED body
           ELSE IF NotOk(r)
           THEN /\ Finish(p, Threw(Wrap(StatusCheckFailed(r))), left, lg)
                /\ UNCHANGED body
           ELSE /\ pc' = [pc EXCEPT ![p] = "json"]
                /\ body' = [body EXCEPT ![p] = Some(r)]
                /\ UNCHANGED <<outcome, attemptsLeft, log>>
    /\ pending' = [pending EXCEPT ![p] = Tail(@)]
    /\ UNCHANGED <<opts, overlap>>
    /\ CredentialsUntouched /\ UNCHANGED <<pipeVars, genVars, saveVars>>

\* The awaited response.json() settles. A body that is no JSON rejects, which
\* throws inside the try. Otherwise the status document is looked at: DONE
\* returns data.result.files, FAIL throws, anything else is a non-terminal
\* observation: the callback (if any), the decrement, the delay.
JsonSettles(p) ==
    /\ pc[p] = "json"
    /\ body[p] # Undefined
    /\ body' = [body EXCEPT ![p] = Undefined]
    /\ LET r == body[p][1]
           left == attemptsLeft[Cell(p)]
           lg == log[p]
           total == opts[p].attempts
       IN  IF r.json = Undefined
           THEN /\ Finish(p, Threw(Wrap(JsonSyntaxError)), left, lg)
                /\ UNCHANGED pending
           ELSE LET data == r.json[1]
                    called == Append(lg, Event("callback", data.status, left, total))
                IN  IF IsDone(data)
                    THEN /\ Finish(p, DoneOutcome(data), left, lg)
                         /\ UNCHANGED pending
                    ELSE IF IsFail(data)
                    THEN /\ Finish(p, Threw(Wrap(GenerationFailed(ErrorMsg(data)))), left, lg)
                         /\ UNCHANGED pending
                    ELSE IF opts[p].onProgress = "throws"
                    THEN /\ Finish(p, Threw(Wrap(CallbackMessage)), left, called)
                         /\ UNCHANGED pending
                    ELSE LET after == IF opts[p].onProgress = "null" THEN lg ELSE called
                             dec == Decrement(left)
                         IN  AwaitDelay(p, dec,
                                        Append(after, Event("decrement", "", dec, total)))
    /\ UNCHANGED <<opts, obs, overlap>>
    /\ CredentialsUntouched /\ UNCHANGED <<pipeVars, genVars, saveVars>>

\* The timer of the delay fires: the call resumes at the head of the loop.
TimerFires(p) ==
    /\ pc[p] = "delay"
    /\ LoopHead(p, opts[p], attemptsLeft[Cell(p)],
                Append(log[p], Event("wake", "", attemptsLeft[Cell(p)], opts[p].attempts)))
    /\ UNCHANGED <<opts, body, obs, overlap>>
    /\ CredentialsUntouched /\ UNCHANGED <<pipeVars, genVars, saveVars>>

\* ------------------------------------------------------------- generate
\* `${n}` and JSON.stringify(n) of a natural number: its decimal digits.
Digit == <<"0", "1", "2", "3", "4", "5", "6", "7", "8", "9">>
RECURSIVE NumberString(_)
NumberString(n) ==
    IF n < 10 THEN Digit[n + 1] ELSE NumberString(n \div 10) \o Digit[(n % 10) + 1]

\* const {width = 1024, height = 576, numImages = 1, ...} = options
DefaultWidth == 1024
DefaultHeight == 576
DefaultNumImages == 1
OrDefault(opt, default) == IF opt = Undefined THEN default ELSE opt[1]

\* JSON.stringify of a string (of the model's strings, which need no escapes).
Quoted(str) == "\"" \o str \o "\""

\* One member of a JSON object, `"key":value`, and the text of the object.
Member(key, valueText) == Quoted(key) \o ":" \o valueText
RECURSIVE Joined(_)
Joined(members) ==
    IF members = <<>> THEN ""
    ELSE IF Len(members) = 1 THEN members[1]
    ELSE members[1] \o "," \o Joined(Tail(members))
ObjectText(members) == "{" \o Joined(members) \o "}"

\* if (style) { params.style = style }, and the same for negativePrompt: the
\* member is added only for a truthy value (style and negativePrompt default to
\* null, which is falsy like undefined and '').
WithNullable(members, key, opt) ==
    Append(members, Member(key, IF opt = Undefined THEN "null" ELSE Quoted(opt[1])))
WithOptional(members, key, opt) ==
    IF Truthy(opt) THEN Append(members, Member(key, Quoted(opt[1]))) ELSE members

\* JSON.stringify(params) of the params object generate builds.
ParamsText(prompt, options) ==
    LET base == << Member("type", Quoted("GENERATE")),
                   Member("numImages",
                          NumberString(OrDefault(options.numImages, DefaultNumImages))),
                   Member("width", NumberString(OrDefault(options.width, DefaultWidth))),
                   Member("height", NumberString(OrDefault(options.height, DefaultHeight))),
                   Member("generateParams", ObjectText(<<Member("query", Quoted(prompt))>>)) >>
    IN  ObjectText(WithOptional(WithOptional(base, "style", options.style),
                                "negativePromptDecoder", options.negativePrompt))

\* fetch(`${this.URL}key/api/v1/pipeline/run`, {method: 'POST', headers, body: formData})
\* with formData = {pipeline_id, params: Blob([JSON.stringify(params)], application/json)}
RunRequest(prompt, pipelineId, options) ==
    [method |-> "POST", url |-> URL \o "key/api/v1/pipeline/run", headers |-> AUTH_HEADERS,
     body |-> [pipeline_id |-> pipelineId,
               params |-> [type |-> "application/json", text |-> ParamsText(prompt, options)]]]

\* The document the run endpoint answers with: {uuid?, pipeline_status?}.
RunDoc(uuid, pipeline_status) == [uuid |-> uuid, pipeline_status |-> pipeline_status]

\* `Failed to generate image: ${response.status} ${response.statusText}`
GenerateFailed(response) ==
    "Failed to generate image: " \o StatusString(response.status) \o " " \o response.statusText

\* if (data.pipeline_status)
UnavailableNeverChecked(data) == FALSE
Unavailable(data) == Truthy(data.pipeline_status)

\* `Service unavailable: ${data.pipeline_status}`
ServiceUnavailable(data) == "Service unavailable: " \o data.pipeline_status[1]

\* catch (error) { throw new Error(`Failed to generate image: ${error.message}`) }
WrapGenerate(message) == "Failed to generate image: " \o message

GenerateEnds(out) ==
    /\ genpc' = "done"
    /\ genoutcome' = out

NoGenerateArgs ==
    [prompt |-> "", pipelineId |-> "",
     options |-> [width |-> Undefined, height |-> Undefined, numImages |-> Undefined,
                  style |-> Undefined, negativePrompt |-> Undefined]]

\* generate(prompt, pipelineId, options) is called: the params are built and
\* posted, and the call suspends on the fetch.
Generate(prompt, pipelineId, options) ==
    /\ genpc = "idle"
    /\ genpc' = "fetch"
    /\ genargs' = [prompt |-> prompt, pipelineId |-> pipelineId, options |-> options]
    /\ genpending' = Append(genpending, RunRequest(prompt, pipelineId, options))
    /\ gensent' = Append(gensent, RunRequest(prompt, pipelineId, options))
    /\ UNCHANGED <<genbody, genobs, genoutcome>>
    /\ CredentialsUntouched /\ UNCHANGED <<pollVars, pipeVars, saveVars>>

\* The awaited fetch settles with r. A rejection or a response that is not ok
\* throws inside the try; otherwise response.json() is awaited.
GenerateFetchSettles(r) ==
    /\ genpc = "fetch"
    /\ genpending # <<>>
    /\ genpending' = Tail(genpending)
    /\ genobs' = Append(genobs, r)
    /\ IF r.settled = "rejected"
       THEN GenerateEnds(Threw(WrapGenerate(r.reason))) /\ UNCHANGED genbody
       ELSE IF NotOk(r)
       THEN GenerateEnds(Threw(WrapGenerate(GenerateFailed(r)))) /\ UNCHANGED genbody
       ELSE /\ genpc' = "json"
            /\ genbody' = Some(r)
            /\ UNCHANGED genoutcome
    /\ UNCHANGED <<genargs, gensent>>
    /\ CredentialsUntouched /\ UNCHANGED <<pollVars, pipeVars, saveVars>>

\* The awaited response.json() settles: a body that is no JSON rejects; a
\* truthy pipeline_status throws; otherwise data.uuid is returned.
GenerateJsonSettles ==
    /\ genpc = "json"
    /\ genbody # Undefined
    /\ genbody' = Undefined
    /\ LET r == genbody[1]
       IN  IF r.json = Undefined
           THEN GenerateEnds(Threw(WrapGenerate(JsonSyntaxError)))
           ELSE LET data == r.json[1]
                IN  IF Unavailable(data)
                    THEN GenerateEnds(Threw(WrapGenerate(ServiceUnavailable(data))))
                    ELSE GenerateEnds(Returned(data.uuid))
    /\ UNCHANGED <<genargs, genpending, gensent, genobs>>
    /\ CredentialsUntouched /\ UNCHANGED <<pollVars, pipeVars, saveVars>>

\* ----------------------------------------------------------- saveImages
\* processedData.startsWith('data:image')
StartsWith(str, start) == Len(str) >= Len(start) /\ SubSeq(str, 1, Len(start)) = start

\* if (!processedData.startsWith('data:image')) processedData = 'data:image/png;base64,' + ...
ProcessedData(imgData) ==
    IF ~StartsWith(imgData, "data:image") THEN "data:image/png;base64," \o imgData
    ELSE imgData

\* const filename = `${prefix}_${i}.png`, i counting from zero
FileNameCountedFromOne(prefix, i) == prefix \o "_" \o NumberString(i + 1) \o ".png"
FileName(prefix, i) == prefix \o "_" \o NumberString(i) \o ".png"

\* const {prefix = 'kandinsky'} = options
DefaultPrefix == "kandinsky"

\* base64Images.forEach((imgData, i) => ...): the filenames pushed and the links
\* clicked for the images from the one at position i (counted from zero) on.
RECURSIVE ForEach(_, _, _)
ForEach(images, prefix, i) ==
    IF images = <<>> THEN [filenames |-> <<>>, links |-> <<>>]
    ELSE LET rest == ForEach(Tail(images), prefix, i + 1)
             filename == FileName(prefix, i)
         IN  [filenames |-> <<filename>> \o rest.filenames,
              links |-> <<[href |-> ProcessedData(Head(images)), download |-> filename]>>
                           \o rest.links]

\* saveImages(base64Images, options) is called and runs to its return: there
\* is no await in it.
SaveImages(base64Images, options) ==
    /\ spc = "idle"
    /\ spc' = "done"
    /\ sargs' = [images |-> base64Images, prefix |-> options.prefix]
    /\ LET done == ForEach(base64Images, OrDefault(options.prefix, DefaultPrefix), 0)
       IN  /\ downloads' = downloads \o done.links
           /\ soutcome' = Returned(Some(done.filenames))
    /\ CredentialsUntouched /\ UNCHANGED <<pollVars, pipeVars, genVars>>

\* ------------------------------------------------------------- the inputs
ApiKeys == {"k1"}
SecretKeys == {"s1"}
Urls == {Undefined, Some("https://proxy.example/")}
RequestIds == {"job1", "job2"}
\* options.attempts, passed by the caller (the default of 20 for an omitted
\* option is a budget like any other, beyond MaxAttempts). options.delay is the
\* length of the suspension and decides nothing else: the timer fires some time
\* after it is started.
AttemptBudgets == (0 - 1) .. MaxAttempts
\* onProgress: null (the default), a function that returns, a function that throws.
Callbacks == {"null", "returns", "throws"}

Init ==
    /\ \E apiKey \in ApiKeys, secretKey \in SecretKeys, url \in Urls :
          Constructor(apiKey, secretKey, url)
    /\ pc = [p \in Polls |-> "idle"]
    /\ opts = [p \in Polls |-> [requestId |-> "", attempts |-> 0, onProgress |-> "null"]]
    /\ attemptsLeft = [p \in Polls |-> 0]
    /\ pending = [p \in Polls |-> <<>>]
    /\ body = [p \in Polls |-> Undefined]
    /\ log = [p \in Polls |-> <<>>]
    /\ obs = [p \in Polls |-> <<>>]
    /\ outcome = [p \in Polls |-> NoOutcome]
    /\ overlap = FALSE
    /\ gpc = "idle"
    /\ gpending = <<>>
    /\ gsent = <<>>
    /\ gbody = Undefined
    /\ gobs = <<>>
    /\ goutcome = NoOutcome
    /\ genpc = "idle"
    /\ genargs = NoGenerateArgs
    /\ genpending = <<>>
    /\ gensent = <<>>
    /\ genbody = Undefined
    /\ genobs = <<>>
    /\ genoutcome = NoOutcome
    /\ spc = "idle"
    /\ sargs = [images |-> <<>>, prefix |-> Undefined]
    /\ downloads = <<>>
    /\ soutcome = NoOutcome

\* One checkGeneration call on the client, with every input of the model.
PollNext ==
    \/ \E requestId \in RequestIds, attempts \in AttemptBudgets, onProgress \in Callbacks :
          Call("a", requestId, attempts, onProgress)
    \/ \E r \in StatusFetchResults : FetchSettles("a", r)
    \/ JsonSettles("a")
    \/ TimerFires("a")

PollSpec == Init /\ [][PollNext]_vars

\* The same, given that every status request, every json() and every delay
\* completes: a suspended call is resumed.
FairPollSpec ==
    /\ PollSpec
    /\ WF_vars(\E r \in StatusFetchResults : FetchSettles("a", r))
    /\ WF_vars(JsonSettles("a"))
    /\ WF_vars(TimerFires("a"))

\* Two checkGeneration calls interleaved on the client, for the same job handle
\* or for different ones. The service answers with one of each kind of result.
InterleavedResults ==
    {Response(FALSE, 500, "Internal Server Error", Undefined),
     Response(TRUE, 200, "OK", Some(StatusDoc("PROCESSING", Undefined, Undefined))),
     Response(TRUE, 200, "OK", Some(StatusDoc("DONE", Some([files |-> <<"imgA">>]), Undefined))),
     Response(TRUE, 200, "OK", Some(StatusDoc("FAIL", Undefined, Some("censored"))))}

TwoPollsNext ==
    \/ \E p \in Polls, requestId \in RequestIds, attempts \in AttemptBudgets,
          onProgress \in Callbacks :
          /\ p = "a" => requestId = "job1"
          /\ Call(p, requestId, attempts, onProgress)
    \/ \E p \in Polls, r \in InterleavedResults : FetchSettles(p, r)
    \/ \E p \in Polls : JsonSettles(p)
    \/ \E p \in Polls : TimerFires(p)

TwoPollsSpec == Init /\ [][TwoPollsNext]_vars

\* ---------------------------------------------------------- getPipeline
\* A parsed JSON body of the pipeline listing: null, an array of pipeline
\* descriptors {id, name}, or an object that is no array (no length, no [0]).
JsonNull == [type |-> "null", items |-> <<>>]
JsonArray(items) == [type |-> "array", items |-> items]
JsonObject == [type |-> "object", items |-> <<>>]

PipelineEntries ==
    {[id |-> "pipe-1", name |-> "Kandinsky"], [id |-> "pipe-2", name |-> "Kandinsky"],
     [id |-> "pipe-1", name |-> "Other"]}

RECURSIVE ListsUpTo(_, _)
ListsUpTo(S, n) ==
    IF n = 0 THEN {<<>>}
    ELSE LET shorter == ListsUpTo(S, n - 1)
         IN  shorter \cup {Append(l, e) : l \in {x \in shorter : Len(x) = n - 1}, e \in S}

PipelineFetchResults ==
    {FetchRejected}
    \cup {Response(FALSE, 500, "Internal Server Error", Undefined),
          Response(FALSE, 404, "Not Found", Undefined)}
    \cup {Response(TRUE, 200, "OK", Undefined)}
    \cup {Response(TRUE, 200, "OK", Some(JsonNull)), Response(TRUE, 200, "OK", Some(JsonObject))}
    \cup {Response(TRUE, 200, "OK", Some(JsonArray(l))) :
             l \in ListsUpTo(PipelineEntries, MaxPipelines)}

\* fetch(`${this.URL}key/api/v1/pipelines`, {method: 'GET', headers})
PipelinesRequestToRunEndpoint ==
    [method |-> "GET", url |-> URL \o "key/api/v1/pipeline/run", headers |-> AUTH_HEADERS]
PipelinesRequest ==
    [method |-> "GET", url |-> URL \o "key/api/v1/pipelines", headers |-> AUTH_HEADERS]

\* `Failed to get pipeline: ${response.status} ${response.statusText}`
GetPipelineFailed(response) ==
    "Failed to get pipeline: " \o StatusString(response.status) \o " " \o response.statusText

\* if (!data || data.length === 0): null is falsy; an object that is no array
\* is truthy and its length is undefined.
LengthNeverChecked(data) == data.type = "null"
NoPipelines(data) == data.type = "null" \/ (data.type = "array" /\ Len(data.items) = 0)

\* data[0]: the first element of an array, undefined for an object without it.
LastOf(data) == IF data.items = <<>> THEN Undefined ELSE Some(data.items[Len(data.items)])
First(data) == IF data.items = <<>> THEN Undefined ELSE Some(Head(data.items))

\* The TypeError of data[0].id when data[0] is undefined.
NoEntryTypeError == "Cannot read properties of undefined (reading 'id')"

\* catch (error) { throw new Error(`Failed to get pipeline ID: ${error.message}`) }
WrapPipeline(message) == "Failed to get pipeline ID: " \o message

GetPipelineEnds(out) ==
    /\ gpc' = "done"
    /\ goutcome' = out

\* getPipeline() is called: the listing is fetched and the call suspends on it.
GetPipeline ==
    /\ gpc = "idle"
    /\ gpc' = "fetch"
    /\ gpending' = Append(gpending, PipelinesRequest)
    /\ gsent' = Append(gsent, PipelinesRequest)
    /\ UNCHANGED <<gbody, gobs, goutcome>>
    /\ CredentialsUntouched /\ UNCHANGED <<pollVars, genVars, saveVars>>

\* The awaited fetch settles with r. A rejection or a response that is not ok
\* throws inside the try; otherwise response.json() is awaited.
GetPipelineFetchSettles(r) ==
    /\ gpc = "fetch"
    /\ gpending # <<>>
    /\ gpending' = Tail(gpending)
    /\ gobs' = Append(gobs, r)
    /\ IF r.settled = "rejected"
       THEN GetPipelineEnds(Threw(WrapPipeline(r.reason))) /\ UNCHANGED gbody
       ELSE IF NotOk(r)
       THEN GetPipelineEnds(Threw(WrapPipeline(GetPipelineFailed(r)))) /\ UNCHANGED gbody
       ELSE /\ gpc' = "json"
            /\ gbody' = Some(r)
            /\ UNCHANGED goutcome
    /\ UNCHANGED gsent
    /\ CredentialsUntouched /\ UNCHANGED <<pollVars, genVars, saveVars>>

\* The awaited response.json() settles: a body that is no JSON rejects; no data
\* or an empty list throws; otherwise data[0].id is returned.
GetPipelineJsonSettles ==
    /\ gpc = "json"
    /\ gbody # Undefined
    /\ gbody' = Undefined
    /\ LET r == gbody[1]
       IN  IF r.json = Undefined
           THEN GetPipelineEnds(Threw(WrapPipeline(JsonSyntaxError)))
           ELSE LET data == r.json[1]
                IN  IF NoPipelines(data)
                    THEN GetPipelineEnds(Threw(WrapPipeline("No pipelines available")))
                    ELSE IF First(data) = Undefined
                    THEN GetPipelineEnds(Threw(WrapPipeline(NoEntryTypeError)))
                    ELSE GetPipelineEnds(Returned(Some(First(data)[1].id)))
    /\ UNCHANGED <<gpending, gsent, gobs>>
    /\ CredentialsUntouched /\ UNCHANGED <<pollVars, genVars, saveVars>>

PipelineNext ==
    \/ GetPipeline
    \/ \E r \in PipelineFetchResults : GetPipelineFetchSettles(r)
    \/ GetPipelineJsonSettles

PipelineSpec == Init /\ [][PipelineNext]_vars

\* The inputs of generate and what the run endpoint can answer.
Prompts == {"a cat"}
PipelineIds == {"pipe-1"}
GenerateOptions ==
    [width : {Undefined, Some(512)}, height : {Undefined, Some(768)},
     numImages : {Undefined, Some(2)},
     style : {Undefined, Some(""), Some("ANIME")},
     negativePrompt : {Undefined, Some(""), Some("blurry")}]
RunDocs ==
    {RunDoc(Some("job1"), Undefined), RunDoc(Some("job1"), Some("")),
     RunDoc(Some("job1"), Some("DISABLED_BY_QUEUE")),
     RunDoc(Undefined, Some("DISABLED_BY_QUEUE"))}
RunFetchResults ==
    {FetchRejected}
    \cup {Response(FALSE, 500, "Internal Server Error", Undefined)}
    \cup {Response(TRUE, 200, "OK", Undefined)}
    \cup {Response(TRUE, 200, "OK", Some(d)) : d \in RunDocs}

GenerateNext ==
    \/ \E prompt \in Prompts, pipelineId \in PipelineIds, options \in GenerateOptions :
          Generate(prompt, pipelineId, options)
    \/ \E r \in RunFetchResults : GenerateFetchSettles(r)
    \/ GenerateJsonSettles

GenerateSpec == Init /\ [][GenerateNext]_vars

\* The inputs of saveImages: payloads without a marker, with the standard one,
\* and with another image marker.
Payloads == {"iVBORw0KG", "data:image/png;base64,AAA", "data:image/jpeg;base64,BBB"}
Prefixes == {Undefined, Some("cat"), Some("")}

SaveNext ==
    \E base64Images \in ListsUpTo(Payloads, MaxImages), prefix \in Prefixes :
        SaveImages(base64Images, [prefix |-> prefix])

SaveSpec == Init /\ [][SaveNext]_vars

\* The four operations on one client, called in any order and interleaved: one
\* call of each, with one input of each kind and one answer of each kind.
ClientPipelineResults ==
    {FetchRejected, Response(FALSE, 500, "Internal Server Error", Undefined),
     Response(TRUE, 200, "OK", Some(JsonArray(<<[id |-> "pipe-1", name |-> "Kandinsky"]>>)))}
ClientRunResults ==
    {Response(FALSE, 500, "Internal Server Error", Undefined),
     Response(TRUE, 200, "OK", Some(RunDoc(Some("job1"), Undefined))),
     Response(TRUE, 200, "OK", Some(RunDoc(Undefined, Some("DISABLED_BY_QUEUE"))))}
ClientOptions ==
    [width : {Undefined}, height : {Undefined}, numImages : {Undefined},
     style : {Undefined, Some("ANIME")}, negativePrompt : {Undefined}]
ClientImages == {<<"iVBORw0KG">>, <<"data:image/png;base64,AAA", "iVBORw0KG">>}

ClientNext ==
    \/ GetPipeline
    \/ \E r \in ClientPipelineResults : GetPipelineFetchSettles(r)
    \/ GetPipelineJsonSettles
    \/ \E prompt \in Prompts, pipelineId \in PipelineIds, options \in ClientOptions :
          Generate(prompt, pipelineId, options)
    \/ \E r \in ClientRunResults : GenerateFetchSettles(r)
    \/ GenerateJsonSettles
    \/ \E attempts \in {1, MaxAttempts} : Call("a", "job1", attempts, "null")
    \/ \E r \in InterleavedResults : FetchSettles("a", r)
    \/ JsonSettles("a")
    \/ TimerFires("a")
    \/ \E base64Images \in ClientImages : SaveImages(base64Images, [prefix |-> Undefined])

ClientSpec == Init /\ [][ClientNext]_vars

\* ---------------------------------------------------- reading a call's log
Finished(p) == pc[p] = "done"
Entries(p, ev) == SelectSeq(log[p], LAMBDA e : e.ev = ev)
Reads(p) == Len(Entries(p, "read"))
Delays(p) == Len(Entries(p, "sleep"))
Decrements(p) == Len(Entries(p, "decrement"))
CallbackCalls(p) == Entries(p, "callback")

\* The kinds of fetch result.
HasDocument(r) == r.settled = "resolved" /\ r.ok /\ r.json # Undefined
ReportsDone(r) == HasDocument(r) /\ r.json[1].status = "DONE"
ReportsFail(r) == HasDocument(r) /\ r.json[1].status = "FAIL"
ReportsNonTerminal(r) == HasDocument(r) /\ r.json[1].status \notin {"DONE", "FAIL"}
TransportFailure(r) == r.settled = "rejected" \/ ~r.ok
ParseFailure(r) == r.settled = "resolved" /\ r.ok /\ r.json = Undefined

\* The i-th fetch result of p has been looked at (the last one is not while its
\* json() is still awaited).
Processed(p, i) == i \in 1 .. Len(obs[p]) /\ (i < Len(obs[p]) \/ pc[p] # "json")
NonTerminalSeen(p) ==
    Cardinality({i \in 1 .. Len(obs[p]) : Processed(p, i) /\ ReportsNonTerminal(obs[p][i])})

\* The n-th fetch result ended the call without consuming a retry: n reads, and
\* n - 1 decrements, delays and callbacks (those of the observations before it).
ConsumedNoRetry(p, n) ==
    /\ Reads(p) = n
    /\ Decrements(p) = n - 1
    /\ Delays(p) = n - 1
    /\ Len(CallbackCalls(p)) = (IF opts[p].onProgress = "null" THEN 0 ELSE n - 1)
    /\ attemptsLeft[p] = opts[p].attempts - (n - 1)
    /\ pending[p] = <<>>

\* C1: when the service reports k non-terminal statuses followed by DONE, with
\* k < attempts, the call returns exactly the file list of that DONE response
\* after k + 1 status reads; a supplied progress callback is invoked exactly k
\* times, once per non-terminal status and with that status, and the attemptsLeft
\* it is given decreases by exactly one from each call to the next.
C1_DoneAfterK ==
    \A p \in Polls : \A k \in 0 .. MaxAttempts + 1 :
        ( /\ Finished(p)
          /\ k < opts[p].attempts
          /\ Len(obs[p]) = k + 1
          /\ \A i \in 1 .. k : ReportsNonTerminal(obs[p][i])
          /\ ReportsDone(obs[p][k + 1])
          /\ obs[p][k + 1].json[1].result # Undefined )
        => LET cbs == CallbackCalls(p)
           IN  /\ outcome[p].kind = "returned"
               /\ outcome[p].value = <<obs[p][k + 1].json[1].result[1].files>>
               /\ Reads(p) = k + 1
               /\ Len(cbs) = (IF opts[p].onProgress = "null" THEN 0 ELSE k)
               /\ \A i \in 1 .. Len(cbs) : cbs[i].status = obs[p][i].json[1].status
               /\ \A i \in 1 .. Len(cbs) - 1 :
                     cbs[i + 1].attemptsLeft = cbs[i].attemptsLeft - 1

C1_Witness ==
    /\ Finished("a")
    /\ opts["a"].attempts = 3
    /\ opts["a"].onProgress = "returns"
    /\ Len(obs["a"]) = 3
    /\ ReportsNonTerminal(obs["a"][1]) /\ ReportsNonTerminal(obs["a"][2])
    /\ outcome["a"] = Returned(Some(<<"imgB", "imgC">>))
    /\ Len(CallbackCalls("a")) = 2

\* Every fetch result p has been given is a non-terminal status, and the call
\* has ended.
EndedOnNonTerminalOnly(p) ==
    /\ Finished(p)
    /\ \A i \in 1 .. Len(obs[p]) : ReportsNonTerminal(obs[p][i])

TimesOutAfterBudget(p) ==
    /\ outcome[p] = [kind |-> "threw", value |-> <<>>, message |-> "Generation timed out"]
    /\ Reads(p) = opts[p].attempts
    /\ Delays(p) = opts[p].attempts
    /\ NonTerminalSeen(p) = opts[p].attempts

LastReportsFail(p) ==
    /\ Processed(p, Len(obs[p]))
    /\ ReportsFail(obs[p][Len(obs[p])])

\* C3 as stated: a FAIL status ends the call at once with the generation-failed
\* error, which carries the errorDescription when the response has one and the
\* generic message otherwise; the observation consumes no retry.
C3_AsStated ==
    \A p \in Polls :
        LastReportsFail(p)
        => LET d == obs[p][Len(obs[p])].json[1].errorDescription
           IN  /\ Finished(p)
               /\ outcome[p].kind = "threw"
               /\ outcome[p].message =
                     "Error checking generation: Generation failed: "
                         \o (IF d # <<>> THEN d[1] ELSE "Unknown error")
               /\ ConsumedNoRetry(p, Len(obs[p]))

\* C3 as amended: the error carries the errorDescription when the response has
\* a non-empty one, and the generic message when it has none or an empty one.
C3_FailEndsAtOnce ==
    \A p \in Polls :
        LastReportsFail(p)
        => LET d == obs[p][Len(obs[p])].json[1].errorDescription
           IN  /\ Finished(p)
               /\ outcome[p].kind = "threw"
               /\ outcome[p].message =
                     "Error checking generation: Generation failed: "
                         \o (IF d # <<>> /\ d # <<"">> THEN d[1] ELSE "Unknown error")
               /\ ConsumedNoRetry(p, Len(obs[p]))

C3_Witness ==
    /\ LastReportsFail("a")
    /\ Len(obs["a"]) = 2
    /\ obs["a"][2].json[1].errorDescription = <<"censored">>
    /\ outcome["a"].message = "Error checking generation: Generation failed: censored"
    /\ opts["a"].onProgress = "returns"
    /\ attemptsLeft["a"] = opts["a"].attempts - 1

\* The messages a FAIL status can end a call with.
FailMessages ==
    {"Error checking generation: Generation failed: " \o m :
        m \in {"Unknown error", "", "censored"}}

\* The cause message of a transport or parse failure.
CauseMessage(r) ==
    IF r.settled = "rejected" THEN r.reason
    ELSE IF ~r.ok
         THEN "Failed to check generation status: "
                  \o (IF r.status = 500 THEN "500" ELSE "404") \o " " \o r.statusText
         ELSE "Unexpected token < in JSON at position 0"

\* C4: a transport failure (a rejected fetch, a response that is not ok) or a
\* parse failure during a status read ends the call at once with a status-check
\* error that carries the cause, whatever the attempts left; the read consumes
\* no retry, and the error is neither a FAIL status's error nor the timeout.
C4_StatusCheckErrorAborts ==
    \A p \in Polls :
        LET n == Len(obs[p])
        IN  ( /\ n > 0
              /\ \/ TransportFailure(obs[p][n])
                 \/ ParseFailure(obs[p][n]) /\ Processed(p, n) )
            => /\ Finished(p)
               /\ outcome[p].kind = "threw"
               /\ outcome[p].message = "Error checking generation: " \o CauseMessage(obs[p][n])
               /\ outcome[p].message \notin FailMessages \cup {"Generation timed out"}
               /\ ConsumedNoRetry(p, n)

C4_Witness ==
    /\ Len(obs["a"]) = 2
    /\ ~obs["a"][2].ok /\ obs["a"][2].status = 500
    /\ Finished("a")
    /\ opts["a"].attempts = 3 /\ attemptsLeft["a"] = 2
    /\ outcome["a"].message =
          "Error checking generation: Failed to check generation status: 500 Internal Server Error"

\* C5: once a DONE or FAIL status has been looked at, the call has ended and it
\* issues no further status read: a terminal status is the last result of the
\* call. A DONE with its image list, on any iteration and also on the last one
\* the budget permits, ends the call by returning that list, never by a timeout.
C5_TerminalIsFinal ==
    \A p \in Polls : \A i \in 1 .. Len(obs[p]) :
        LET r == obs[p][i]
        IN  /\ (Processed(p, i) /\ (ReportsDone(r) \/ ReportsFail(r)))
               => /\ Finished(p)
                  /\ i = Len(obs[p])
                  /\ Reads(p) = i
                  /\ pending[p] = <<>>
                  /\ outcome[p].message # "Generation timed out"
            /\ (Processed(p, i) /\ ReportsDone(r) /\ r.json[1].result # <<>>)
               => /\ outcome[p].kind = "returned"
                  /\ outcome[p].value = <<r.json[1].result[1].files>>

\* DONE read on the last iteration the budget permits (attemptsLeft = 1).
C5_Witness ==
    /\ Finished("a")
    /\ opts["a"].attempts = 3
    /\ attemptsLeft["a"] = 1
    /\ Len(obs["a"]) = 3
    /\ ReportsDone(obs["a"][3])
    /\ outcome["a"] = Returned(Some(<<"imgA">>))

\* The four ways a call ends.
ReturnedImages(p) == outcome[p].kind = "returned"
GenerationFailedError(p) == outcome[p].kind = "threw" /\ outcome[p].message \in FailMessages
TimeoutError(p) == outcome[p].kind = "threw" /\ outcome[p].message = "Generation timed out"
StatusCheckError(p) ==
    /\ outcome[p].kind = "threw"
    /\ outcome[p].message \in
          {"Error checking generation: " \o m :
              m \in {CauseMessage(r) : r \in StatusFetchResults}
                    \cup {"Cannot read properties of undefined (reading 'files')",
                          "onProgress failed"}}

OneOfFourOutcomes(p) ==
    Cardinality({k \in {"returned", "failed", "timeout", "check"} :
                    \/ k = "returned" /\ ReturnedImages(p)
                    \/ k = "failed" /\ GenerationFailedError(p)
                    \/ k = "timeout" /\ TimeoutError(p)
                    \/ k = "check" /\ StatusCheckError(p)}) = 1

\* The reads a budget allows: `attempts` of them, none for a budget below one.
ReadsAllowed(p) == IF opts[p].attempts > 0 THEN opts[p].attempts ELSE 0

\* C6 as stated: given that every status request and every delay completes, a
\* call that has started ends; a call that has ended has one of the four
\* outcomes, has read the status at most `attempts` times, and has been
\* suspended for the delay once per non-terminal observation.
C6_AsStated ==
    /\ \A p \in Polls : (pc[p] # "idle") ~> Finished(p)
    /\ [](\A p \in Polls :
            Finished(p)
            => /\ OneOfFourOutcomes(p)
               /\ Reads(p) <= ReadsAllowed(p)
               /\ Delays(p) = NonTerminalSeen(p))

\* C6 as amended: given that every status request and every delay completes, a
\* call that has started ends; it ends in exactly one of the four outcomes after
\* at most `attempts` status reads, and it has been suspended for the delay
\* once per non-terminal observation whose progress callback did not throw (a
\* callback that throws ends the call before the delay).
C6_Terminates ==
    /\ \A p \in Polls : (pc[p] # "idle") ~> Finished(p)
    /\ [](\A p \in Polls :
            /\ Reads(p) <= ReadsAllowed(p)
            /\ Delays(p) = (IF opts[p].onProgress = "throws" THEN 0 ELSE NonTerminalSeen(p))
            /\ opts[p].onProgress = "throws" => NonTerminalSeen(p) <= 1
            /\ Finished(p) => OneOfFourOutcomes(p)
            /\ ~Finished(p) => outcome[p].kind = "none")

C6_Witness ==
    /\ Finished("a")
    /\ opts["a"].attempts = 3
    /\ Reads("a") = 3
    /\ NonTerminalSeen("a") = 2
    /\ Delays("a") = 2
    /\ StatusCheckError("a")

\* C7: within a call the status checks are sequential. At most one request is
\* outstanding, and only while the call awaits it with the response before it
\* fully looked at; every status read after the first comes directly after the
\* delay has completed (a "wake"), which comes after the delay was started once
\* the response before it was processed.
C7_Sequential ==
    \A p \in Polls :
        /\ Len(pending[p]) <= 1
        /\ Len(pending[p]) = Reads(p) - Len(obs[p])
        /\ pending[p] # <<>> <=> pc[p] = "fetch"
        /\ pending[p] # <<>> => body[p] = <<>>
        /\ \A i \in 1 .. Len(log[p]) :
              (log[p][i].ev = "read" /\ i > 1)
              => /\ i > 3
                 /\ log[p][i - 1].ev = "wake"
                 /\ log[p][i - 2].ev = "sleep"
                 /\ log[p][i - 3].ev = "decrement"
        /\ Delays(p) - Len(Entries(p, "wake")) = (IF pc[p] = "delay" THEN 1 ELSE 0)

C7_Witness ==
    /\ pc["a"] = "fetch" /\ Reads("a") = 3 /\ Len(pending["a"]) = 1
    /\ pc["b"] = "delay" /\ Reads("b") = 2

\* checkGeneration run on its own, from the head of the loop, with options o,
\* the counter at `left` and the fetch results rs still to come: how it ends,
\* and the reads, callback arguments and delays it adds to acc. A run that
\* needs more results than rs holds has not ended.
RECURSIVE Alone(_, _, _, _)
Alone(o, rs, left, acc) ==
    LET end(out, a) == [outcome |-> out, reads |-> a.reads, callbacks |-> a.callbacks,
                        delays |-> a.delays]
    IN  IF ~LoopContinues(left) THEN end(Threw(TimedOut), acc)
        ELSE IF rs = <<>> THEN end(NoOutcome, acc)
        ELSE
            LET r == Head(rs)
                read == [acc EXCEPT !.reads = @ + 1]
            IN  IF r.settled = "rejected" THEN end(Threw(Wrap(r.reason)), read)
                ELSE IF NotOk(r) THEN end(Threw(Wrap(StatusCheckFailed(r))), read)
                ELSE IF r.json = Undefined THEN end(Threw(Wrap(JsonSyntaxError)), read)
                ELSE
                    LET data == r.json[1]
                        called == [read EXCEPT !.callbacks =
                                      Append(@, Event("callback", data.status, left, o.attempts))]
                    IN  IF IsDone(data)
                        THEN end(DoneOutcome(data), read)
                        ELSE IF IsFail(data)
                        THEN end(Threw(Wrap(GenerationFailed(ErrorMsg(data)))), read)
                        ELSE IF o.onProgress = "throws"
                        THEN end(Threw(Wrap(CallbackMessage)), called)
                        ELSE Alone(o, Tail(rs), Decrement(left),
                                   [(IF o.onProgress = "null" THEN read ELSE called)
                                       EXCEPT !.delays = @ + 1])

\* C8: calls on the same client are independent. Each of two interleaved calls,
\* for the same job handle or for different ones, has a remaining-attempt counter
\* of its own (its value is the call's budget less the call's own decrements),
\* and a call that has ended has the outcome, the status reads, the callback
\* calls and the delays of the same call run alone against the same responses.
C8_Independent ==
    \A p \in Polls :
        /\ pc[p] # "idle" => attemptsLeft[p] = opts[p].attempts - Decrements(p)
        /\ Finished(p)
           => [outcome |-> outcome[p], reads |-> Reads(p), callbacks |-> CallbackCalls(p),
               delays |-> Delays(p)]
              = Alone(opts[p], obs[p], opts[p].attempts,
                      [reads |-> 0, callbacks |-> <<>>, delays |-> 0])

\* Two calls for the same job handle that ran interleaved have both ended, one
\* by returning after three reads and the other by a timeout after two.
C8_Witness ==
    /\ overlap
    /\ Finished("a") /\ Reads("a") = 3 /\ outcome["a"].kind = "returned"
    /\ Finished("b") /\ Reads("b") = 2 /\ outcome["b"].message = "Generation timed out"
    /\ opts["a"].requestId = opts["b"].requestId
    /\ Len(CallbackCalls("a")) = 2 /\ Len(CallbackCalls("b")) = 0

\* The fetch result getPipeline was given, once it has been looked at.
PipelineResult == gobs[Len(gobs)]
PipelineLookedAt == gobs # <<>> /\ gpc # "json"
PipelineList(r) == r.json[1].items
ListsPipelines(r) == HasDocument(r) /\ r.json[1].type = "array"

\* C9: for every successful pipeline listing with at least one entry,
\* getPipeline returns exactly the id of the first entry, whatever the number
\* and the content of the entries after it.
C9_FirstId ==
    (PipelineLookedAt /\ ListsPipelines(PipelineResult)
        /\ Len(PipelineList(PipelineResult)) >= 1)
    => /\ gpc = "done"
       /\ goutcome.kind = "returned"
       /\ goutcome.value = <<PipelineList(PipelineResult)[1].id>>

C9_Witness ==
    /\ gpc = "done"
    /\ PipelineLookedAt /\ ListsPipelines(PipelineResult)
    /\ Len(PipelineList(PipelineResult)) = 3
    /\ PipelineList(PipelineResult)[1].id = "pipe-2"
    /\ PipelineList(PipelineResult)[2].id = "pipe-1"
    /\ PipelineList(PipelineResult)[3].id = "pipe-1"
    /\ goutcome = Returned(Some("pipe-2"))

\* The cause of a failed pipeline resolution.
PipelineCause(r) ==
    IF r.settled = "rejected" THEN r.reason
    ELSE IF ~r.ok
         THEN "Failed to get pipeline: " \o (IF r.status = 500 THEN "500" ELSE "404")
                  \o " " \o r.statusText
    ELSE IF r.json = <<>> THEN "Unexpected token < in JSON at position 0"
    ELSE "No pipelines available"

\* C10: getPipeline fails with the one pipeline-resolution error, which carries
\* the message of the cause, whenever the transport call does not succeed (a
\* rejected fetch, a response that is not ok), the response cannot be parsed,
\* or the list is empty (or null); no identifier is returned in these cases.
C10_ResolutionError ==
    ( /\ PipelineLookedAt
      /\ \/ TransportFailure(PipelineResult)
         \/ ParseFailure(PipelineResult)
         \/ HasDocument(PipelineResult) /\ PipelineResult.json[1].type = "null"
         \/ ListsPipelines(PipelineResult) /\ PipelineList(PipelineResult) = <<>> )
    => /\ gpc = "done"
       /\ goutcome.kind = "threw"
       /\ goutcome.value = <<>>
       /\ goutcome.message = "Failed to get pipeline ID: " \o PipelineCause(PipelineResult)

C10_Witness ==
    /\ gpc = "done"
    /\ PipelineLookedAt /\ ListsPipelines(PipelineResult)
    /\ PipelineList(PipelineResult) = <<>>
    /\ goutcome.message = "Failed to get pipeline ID: No pipelines available"

\* C16: inside a non-terminal iteration the progress callback, if supplied, is
\* called first, with the status just read, the counter as it is before the
\* decrement (attemptsLeft = totalAttempts = attempts in the first call) and the
\* same totalAttempts in every call; then the counter is decremented by one, and
\* then the delay starts. The callback is called for non-terminal observations
\* only, never for DONE or FAIL.
C16_CallbackDecrementDelay ==
    \A p \in Polls : \A i \in 1 .. Len(log[p]) :
        LET e == log[p][i]
            reads == Len(SelectSeq(SubSeq(log[p], 1, i), LAMBDA x : x.ev = "read"))
            decs == Len(SelectSeq(SubSeq(log[p], 1, i - 1), LAMBDA x : x.ev = "decrement"))
        IN  /\ e.ev = "callback"
               => /\ opts[p].onProgress # "null"
                  /\ log[p][i - 1].ev = "read"
                  /\ Processed(p, reads)
                  /\ ReportsNonTerminal(obs[p][reads])
                  /\ e.status = obs[p][reads].json[1].status
                  /\ e.attemptsLeft = opts[p].attempts - decs
                  /\ e.totalAttempts = opts[p].attempts
                  /\ reads = 1 => e.attemptsLeft = e.totalAttempts
                  /\ opts[p].onProgress = "returns"
                     => /\ i + 2 <= Len(log[p])
                        /\ log[p][i + 1].ev = "decrement"
                        /\ log[p][i + 1].attemptsLeft = e.attemptsLeft - 1
                        /\ log[p][i + 2].ev = "sleep"
            /\ e.ev = "decrement"
               => /\ log[p][i - 1].ev = (IF opts[p].onProgress = "null" THEN "read" ELSE "callback")
                  /\ e.attemptsLeft = opts[p].attempts - decs - 1
                  /\ i + 1 <= Len(log[p]) /\ log[p][i + 1].ev = "sleep"
            /\ e.ev = "sleep"
               => /\ log[p][i - 1].ev = "decrement"
                  /\ e.attemptsLeft = log[p][i - 1].attemptsLeft
            /\ (e.ev = "read" /\ Processed(p, reads) /\ ~ReportsNonTerminal(obs[p][reads]))
               => i = Len(log[p])

C16_Witness ==
    /\ opts["a"].attempts = 3 /\ opts["a"].onProgress = "returns"
    /\ pc["a"] = "delay"
    /\ Len(log["a"]) = 9
    /\ log["a"][2] = [ev |-> "callback", status |-> "PROCESSING", attemptsLeft |-> 3,
                       totalAttempts |-> 3]
    /\ log["a"][7] = [ev |-> "callback", status |-> "SOMETHING_NEW", attemptsLeft |-> 2,
                       totalAttempts |-> 3]
    /\ log["a"][8].ev = "decrement" /\ log["a"][8].attemptsLeft = 1
    /\ log["a"][9].ev = "sleep"

\* C17: with an attempt budget of zero or less the call issues no status read,
\* never calls the progress callback and never waits: it fails at once with the
\* timeout error, without asking the service whether the job is DONE or FAIL.
C17_NoBudgetNoRead ==
    \A p \in Polls :
        (pc[p] # "idle" /\ opts[p].attempts <= 0)
        => /\ Finished(p)
           /\ outcome[p] = [kind |-> "threw", value |-> <<>>, message |-> "Generation timed out"]
           /\ log[p] = <<>>
           /\ obs[p] = <<>>
           /\ pending[p] = <<>>
           /\ attemptsLeft[p] = opts[p].attempts

C17_Witness ==
    /\ Finished("a")
    /\ opts["a"].attempts = 0
    /\ opts["a"].onProgress = "returns"
    /\ outcome["a"].message = "Generation timed out"
    /\ Reads("a") = 0

\* C18: when the caller's progress callback throws, the call ends at once with
\* the wrapped status-check error carrying the callback's message; the counter
\* is not decremented, no delay starts and no further status read is issued.
C18_CallbackThrows ==
    \A p \in Polls :
        (opts[p].onProgress = "throws" /\ NonTerminalSeen(p) >= 1)
        => /\ Finished(p)
           /\ outcome[p] = [kind |-> "threw", value |-> <<>>,
                            message |-> "Error checking generation: onProgress failed"]
           /\ Len(CallbackCalls(p)) = 1
           /\ log[p][Len(log[p])].ev = "callback"
           /\ Decrements(p) = 0
           /\ attemptsLeft[p] = opts[p].attempts
           /\ Delays(p) = 0
           /\ Reads(p) = 1 /\ Len(obs[p]) = 1
           /\ pending[p] = <<>>

C18_Witness ==
    /\ Finished("a")
    /\ opts["a"].onProgress = "throws" /\ opts["a"].attempts = 3
    /\ NonTerminalSeen("a") = 1
    /\ attemptsLeft["a"] = 3
    /\ outcome["a"].message = "Error checking generation: onProgress failed"

\* The last fetch result of p has been looked at and is a DONE without a result.
LastIsDoneWithoutResult(p) ==
    /\ Processed(p, Len(obs[p]))
    /\ ReportsDone(obs[p][Len(obs[p])])
    /\ obs[p][Len(obs[p])].json[1].result = <<>>

\* C19: a DONE whose response carries no result object does not make the call
\* return an undefined image list: the call fails at once with the wrapped
\* status-check error (the TypeError of reading files) and issues no further
\* status read.
C19_DoneWithoutResult ==
    \A p \in Polls :
        LastIsDoneWithoutResult(p)
        => /\ Finished(p)
           /\ outcome[p].kind = "threw"
           /\ outcome[p].value = <<>>
           /\ outcome[p].message =
                 "Error checking generation: Cannot read properties of undefined (reading 'files')"
           /\ Reads(p) = Len(obs[p])
           /\ pending[p] = <<>>

C19_Witness ==
    /\ LastIsDoneWithoutResult("a")
    /\ Len(obs["a"]) = 2
    /\ Finished("a")
    /\ outcome["a"].kind = "threw"

\* ---------------------------------------------------- reading a JSON text
\* The text holds `part`.
Contains(text, part) ==
    \E i \in 1 .. (Len(text) - Len(part) + 1) : SubSeq(text, i, i + Len(part) - 1) = part

\* The params text of the request generate has posted.
PostedParams == gensent[1].body.params.text

\* C11: when style is omitted the posted params have no style member, and when
\* negativePrompt is omitted they have no negativePromptDecoder member: the key
\* is absent and no member is null. type, numImages, width, height and
\* generateParams.query are always there, and numImages, width and height are
\* 1, 1024 and 576 when omitted.
C11_OmittedMembersAbsent ==
    genpc # "idle"
    => LET o == genargs.options
           text == PostedParams
       IN  /\ Len(gensent) >= 1
           /\ o.style = <<>> => ~Contains(text, "style")
           /\ o.negativePrompt = <<>> => ~Contains(text, "negativePromptDecoder")
           /\ ~Contains(text, "null")
           /\ Contains(text, "{\"type\":\"GENERATE\",")
           /\ Contains(text, "\"numImages\":" \o (IF o.numImages = <<>> THEN "1" ELSE "2") \o ",")
           /\ Contains(text, "\"width\":" \o (IF o.width = <<>> THEN "1024" ELSE "512") \o ",")
           /\ Contains(text, "\"height\":" \o (IF o.height = <<>> THEN "576" ELSE "768") \o ",")
           /\ Contains(text, "\"generateParams\":{\"query\":\"a cat\"}")
           /\ gensent[1].body.params.type = "application/json"
           /\ gensent[1].body.pipeline_id = genargs.pipelineId

\* Everything but the prompt is omitted.
C11_Witness ==
    /\ genpc = "fetch"
    /\ genargs.options = [width |-> <<>>, height |-> <<>>, numImages |-> <<>>,
                          style |-> <<>>, negativePrompt |-> <<>>]
    /\ PostedParams =
          "{\"type\":\"GENERATE\",\"numImages\":1,\"width\":1024,\"height\":576,\"generateParams\":{\"query\":\"a cat\"}}"

\* The fetch result generate was given, once it has been looked at.
RunResult == genobs[Len(genobs)]
RunLookedAt == genobs # <<>> /\ genpc # "json"

\* The cause of a failed submission.
RunCause(r) ==
    IF r.settled = "rejected" THEN r.reason
    ELSE IF ~r.ok
         THEN "Failed to generate image: " \o (IF r.status = 500 THEN "500" ELSE "404")
                  \o " " \o r.statusText
    ELSE IF r.json = <<>> THEN "Unexpected token < in JSON at position 0"
    ELSE "Service unavailable: " \o r.json[1].pipeline_status[1]

SubmissionFails ==
    /\ genpc = "done"
    /\ genoutcome.kind = "threw"
    /\ genoutcome.value = <<>>
    /\ genoutcome.message = "Failed to generate image: " \o RunCause(RunResult)

ReturnsHandle ==
    /\ genpc = "done"
    /\ genoutcome.kind = "returned"
    /\ genoutcome.value = RunResult.json[1].uuid

\* C12 as stated: generate fails with the submission error whenever the fetch
\* does not succeed, the response cannot be parsed, or the response carries a
\* pipeline_status (also when the response is ok); the uuid is returned only
\* when none of these holds.
C12_AsStated ==
    RunLookedAt
    => IF \/ TransportFailure(RunResult)
          \/ ParseFailure(RunResult)
          \/ RunResult.json[1].pipeline_status # <<>>
       THEN SubmissionFails
       ELSE ReturnsHandle

\* C12 as amended: the same with "carries a non-empty (truthy) pipeline_status":
\* a response whose pipeline_status is present but empty is a success.
C12_SubmissionError ==
    RunLookedAt
    => IF \/ TransportFailure(RunResult)
          \/ ParseFailure(RunResult)
          \/ RunResult.json[1].pipeline_status \notin {<<>>, <<"">>}
       THEN SubmissionFails
       ELSE ReturnsHandle

\* An ok response with a uuid and a pipeline_status: the call fails.
C12_Witness ==
    /\ RunLookedAt
    /\ RunResult.ok
    /\ RunResult.json = <<[uuid |-> <<"job1">>, pipeline_status |-> <<"DISABLED_BY_QUEUE">>]>>
    /\ genoutcome.message = "Failed to generate image: Service unavailable: DISABLED_BY_QUEUE"

\* Whether a string begins with another, and a count's decimal text.
BeginsWith(str, start) ==
    /\ Len(str) >= Len(start)
    /\ \A i \in 1 .. Len(start) : SubSeq(str, i, i) = SubSeq(start, i, i)
CountText(i) == <<"0", "1", "2", "3", "4", "5">>[i + 1]

\* What holds of every saveImages call, whatever decides the prepending: n
\* links clicked for n payloads, in input order, the i-th (from zero) with the
\* download name {prefix}_{i}.png, and those n names returned in that order.
NamesAndOrder ==
    LET n == Len(sargs.images)
        prefix == IF sargs.prefix = <<>> THEN "kandinsky" ELSE sargs.prefix[1]
    IN  /\ Len(downloads) = n
        /\ soutcome.kind = "returned"
        /\ Len(soutcome.value[1]) = n
        /\ \A i \in 1 .. n :
              /\ downloads[i].download = prefix \o "_" \o CountText(i - 1) \o ".png"
              /\ soutcome.value[1][i] = downloads[i].download

IsRequestTo(request, method, path) ==
    /\ request.method = method
    /\ request.url = URL \o path
    /\ request.headers = AUTH_HEADERS

\* C14: a getPipeline call issues exactly one request, to the listing
\* endpoint, and a generate call exactly one, to the run endpoint, whatever
\* the request's outcome; a checkGeneration call issues a status read beyond
\* its first only after a read that reported a non-terminal status.
C14_NoTransportRetry ==
    /\ gpc # "idle"
       => Len(gsent) = 1 /\ IsRequestTo(gsent[1], "GET", "key/api/v1/pipelines")
    /\ gpc = "idle" => gsent = <<>>
    /\ genpc # "idle"
       => Len(gensent) = 1 /\ IsRequestTo(gensent[1], "POST", "key/api/v1/pipeline/run")
    /\ genpc = "idle" => gensent = <<>>
    /\ \A k \in 2 .. Reads("a") :
          Len(obs["a"]) >= k - 1 /\ ReportsNonTerminal(obs["a"][k - 1])

\* getPipeline and generate have each failed on their one request, and the
\* poll has read the status three times.
C14_Witness ==
    /\ gpc = "done" /\ goutcome.kind = "threw" /\ Len(gsent) = 1
    /\ genpc = "done" /\ genoutcome.kind = "threw" /\ Len(gensent) = 1
    /\ Finished("a") /\ Reads("a") = 3

\* C15: no step of any operation changes the client's URL or its
\* authentication headers.
C15_CredentialsImmutable == [][URL' = URL /\ AUTH_HEADERS' = AUTH_HEADERS]_vars

\* All four operations have run to their end on a client built with a URL of
\* its own, some failing and some succeeding, and the client still holds what
\* the constructor stored.
C15_Witness ==
    /\ gpc = "done" /\ goutcome.kind = "returned"
    /\ genpc = "done" /\ genoutcome.kind = "threw"
    /\ Finished("a") /\ outcome["a"].kind = "returned"
    /\ spc = "done"
    /\ URL = "https://proxy.example/"
    /\ \E apiKey \in ApiKeys, secretKey \in SecretKeys :
          AUTH_HEADERS = [XKey |-> "Key " \o apiKey, XSecret |-> "Secret " \o secretKey]

====
